---- MODULE Spec2Model ----
(***************************************************************************)
(* A model of the mouse movement simulator (src/main.py, src/config.py):   *)
(* the boundary calculator, the position samplers, the linear and the      *)
(* Bezier trajectory generators, the movement type selector and the main   *)
(* loop, with the floating-point arithmetic of the trajectory generators   *)
(* computed as IEEE-754 binary64 does.                                     *)
(***************************************************************************)
EXTENDS Integers, Sequences, FiniteSets, TLC

(***************************************************************************)
(* Natural numbers of any size, as little-endian sequences of limbs.  They *)
(* carry the significands of the floats below, which do not fit the        *)
(* integers of the model checker.  The canonical form has no leading zero  *)
(* limb; zero is the empty sequence.                                       *)
(***************************************************************************)
LimbBits == 10 + 5

LimbBase == 2 ^ LimbBits

RECURSIVE BNNorm(_)
BNNorm(a) ==
    IF a = << >> THEN << >>
    ELSE IF a[Len(a)] = 0 THEN BNNorm(SubSeq(a, 1, Len(a) - 1))
    ELSE a

RECURSIVE BNFromInt(_)
BNFromInt(n) ==
    IF n = 0 THEN << >>
    ELSE << n % LimbBase >> \o BNFromInt(n \div LimbBase)

RECURSIVE BNToInt(_)
BNToInt(a) ==
    IF a = << >> THEN 0 ELSE a[1] + LimbBase * BNToInt(Tail(a))

BNRest(a) == IF a = << >> THEN << >> ELSE Tail(a)

BNLow(a) == IF a = << >> THEN 0 ELSE a[1]

RECURSIVE BNAddC(_, _, _)
BNAddC(a, b, c) ==
    IF a = << >> /\ b = << >>
    THEN (IF c = 0 THEN << >> ELSE << c >>)
    ELSE LET x == BNLow(a) + BNLow(b) + c
         IN  << x % LimbBase >> \o BNAddC(BNRest(a), BNRest(b), x \div LimbBase)

BNAdd(a, b) == BNNorm(BNAddC(a, b, 0))

\* a - b for a >= b
RECURSIVE BNSubB(_, _, _)
BNSubB(a, b, c) ==
    IF a = << >> THEN << >>
    ELSE LET x == BNLow(a) - BNLow(b) - c
         IN  IF x < 0
             THEN << x + LimbBase >> \o BNSubB(BNRest(a), BNRest(b), 1)
             ELSE << x >> \o BNSubB(BNRest(a), BNRest(b), 0)

BNSub(a, b) == BNNorm(BNSubB(a, b, 0))

\* a < b, for canonical a and b
RECURSIVE BNLessFrom(_, _, _)
BNLessFrom(a, b, i) ==
    IF i = 0 THEN FALSE
    ELSE IF a[i] # b[i] THEN a[i] < b[i]
    ELSE BNLessFrom(a, b, i - 1)

BNLess(a, b) ==
    IF Len(a) # Len(b) THEN Len(a) < Len(b) ELSE BNLessFrom(a, b, Len(a))

\* a * k for 0 <= k < LimbBase
RECURSIVE BNMulSmallC(_, _, _)
BNMulSmallC(a, k, c) ==
    IF a = << >> THEN BNFromInt(c)
    ELSE LET x == a[1] * k + c
         IN  << x % LimbBase >> \o BNMulSmallC(Tail(a), k, x \div LimbBase)

BNMulSmall(a, k) == BNNorm(BNMulSmallC(a, k, 0))

RECURSIVE BNMulRec(_, _)
BNMulRec(a, b) ==
    IF b = << >> THEN << >>
    ELSE BNAddC(BNMulSmallC(a, b[1], 0), << 0 >> \o BNMulRec(a, Tail(b)), 0)

BNMul(a, b) == BNNorm(BNMulRec(a, b))

\* quotient and remainder of a by k, 0 < k < LimbBase
RECURSIVE BNDivSmallRec(_, _, _, _)
BNDivSmallRec(a, k, i, r) ==
    IF i = 0 THEN [q |-> << >>, r |-> r]
    ELSE LET cur  == r * LimbBase + a[i]
             rest == BNDivSmallRec(a, k, i - 1, cur % k)
         IN  [q |-> Append(rest.q, cur \div k), r |-> rest.r]

BNDivSmall(a, k) ==
    LET d == BNDivSmallRec(a, k, Len(a), 0)
    IN  [q |-> BNNorm(d.q), r |-> d.r]

BNZeros(n) == [i \in 1..n |-> 0]

\* a * 2^n
BNShl(a, n) ==
    IF a = << >> THEN << >>
    ELSE BNZeros(n \div LimbBits) \o BNMulSmall(a, 2 ^ (n % LimbBits))

\* floor(a / 2^n), and whether a nonzero bit was shifted out
BNShr(a, n) ==
    LET w    == n \div LimbBits
        low  == SubSeq(a, 1, IF w < Len(a) THEN w ELSE Len(a))
        high == SubSeq(a, w + 1, Len(a))
        d    == BNDivSmall(high, 2 ^ (n % LimbBits))
    IN  [q |-> d.q,
         sticky |-> (\E i \in 1..Len(low) : low[i] # 0) \/ d.r # 0]

RECURSIVE BitLenInt(_)
BitLenInt(n) == IF n = 0 THEN 0 ELSE 1 + BitLenInt(n \div 2)

BNBitLen(a) ==
    IF a = << >> THEN 0
    ELSE LimbBits * (Len(a) - 1) + BitLenInt(a[Len(a)])

BNIsOdd(a) == a # << >> /\ a[1] % 2 = 1

(***************************************************************************)
(* Python's float: IEEE-754 binary64, round to nearest, ties to even.  A   *)
(* float is [neg, m, e] with value (-1)^neg * m * 2^e.  The magnitudes the *)
(* program computes lie far inside the normal range, so overflow and       *)
(* subnormals are not modelled.                                            *)
(***************************************************************************)
MantissaBits == 53

\* m * 2^e (plus a nonzero part below m's last bit when sticky), rounded to
\* MantissaBits significant bits
FRound(neg, m, e, sticky) ==
    LET len == BNBitLen(m)
    IN  IF len <= MantissaBits
        THEN [neg |-> neg, m |-> m, e |-> e]
        ELSE LET sh    == len - MantissaBits
                 g     == BNShr(m, sh - 1)
                 guard == BNIsOdd(g.q)
                 rest  == g.sticky \/ sticky
                 q     == BNShr(g.q, 1).q
                 up    == guard /\ (rest \/ BNIsOdd(q))
             IN  [neg |-> neg,
                  m   |-> IF up THEN BNAdd(q, << 1 >>) ELSE q,
                  e   |-> e + sh]

Abs(n) == IF n < 0 THEN -n ELSE n

\* float(n) for an int n
FFromInt(n) == [neg |-> n < 0, m |-> BNFromInt(Abs(n)), e |-> 0]

DivGuardBits == 5 * LimbBits

\* a / b for ints a, b (b # 0, |b| < LimbBase): the correctly rounded quotient
FDivInt(a, b) ==
    LET d == BNDivSmall(BNShl(BNFromInt(Abs(a)), DivGuardBits), Abs(b))
    IN  FRound((a < 0) # (b < 0), d.q, -DivGuardBits, d.r # 0)

FMul(x, y) == FRound(x.neg # y.neg, BNMul(x.m, y.m), x.e + y.e, FALSE)

\* x * k for a float x and an int k
FMulInt(x, k) == FMul(x, FFromInt(k))

FAdd(x, y) ==
    LET e  == IF x.e < y.e THEN x.e ELSE y.e
        mx == BNShl(x.m, x.e - e)
        my == BNShl(y.m, y.e - e)
    IN  IF x.neg = y.neg THEN FRound(x.neg, BNAdd(mx, my), e, FALSE)
        ELSE IF BNLess(mx, my) THEN FRound(y.neg, BNSub(my, mx), e, FALSE)
        ELSE FRound(x.neg, BNSub(mx, my), e, FALSE)

FNeg(x) == [neg |-> ~x.neg, m |-> x.m, e |-> x.e]

FSub(x, y) == FAdd(x, FNeg(y))

\* x ** 2 and x ** 3 (pow, taken as correctly rounded)
FPow2(x) == FRound(FALSE, BNMul(x.m, x.m), 2 * x.e, FALSE)

FPow3(x) == FRound(x.neg, BNMul(BNMul(x.m, x.m), x.m), 3 * x.e, FALSE)

\* int(x): truncation toward zero
FTrunc(x) ==
    LET mag == IF x.e >= 0 THEN BNToInt(BNShl(x.m, x.e))
               ELSE BNToInt(BNShr(x.m, -x.e).q)
    IN  IF x.neg THEN -mag ELSE mag

(***************************************************************************)
(* Bounds of the model.                                                    *)
(***************************************************************************)
\* main-loop iterations explored (movement_count is unbounded in the code)
MaxMovements == 4

\* MAX_CONSECUTIVE_SAME_TYPE ranges over 1..MaxConsecutive
MaxConsecutive == 2

\* the boundary calculator: screens 1..MaxScreen wide and high, margins of
\* 0..MaxMargin pixels
MaxScreen == 3

MaxMargin == 2

\* the small movements: screens 2..MaxSmallScreen wide and high, minimum
\* distances 1..MaxSmallDistance, radii 0..MaxSmallRadius
MaxSmallScreen == 3

MaxSmallDistance == 4

MaxSmallRadius == 2

\* the linear generator: step counts LinearStepsLow..LinearStepsHigh (inside
\* LINEAR_STEPS_RANGE = (30, 80) of config.py)
LinearStepsLow == 47

LinearStepsHigh == 49

\* the Bezier generator: durations of 1..MaxDuration ticks
MaxDuration == 3

(***************************************************************************)
(* Configuration (src/config.py).  Durations and intervals are counted in  *)
(* whole ticks, curvature factors in tenths.                               *)
(***************************************************************************)
JITTER_INTENSITY == 1

BEZIER_CURVATURE_RANGE == << 2, 4 >>

BaseConfig ==
    [USE_LINEAR_MOVEMENT        |-> TRUE,
     USE_BEZIER_MOVEMENT        |-> TRUE,
     RANDOMIZE_MOVEMENT_TYPES   |-> FALSE,
     MAX_CONSECUTIVE_SAME_TYPE  |-> 2,
     SCREEN_MARGIN              |-> << 1, 0, 0, 0 >>,
     ENABLE_SCREEN_SAFE_ZONE    |-> TRUE,
     ENABLE_JITTER              |-> FALSE,
     ENABLE_SMALL_MOVEMENTS     |-> FALSE,
     SMALL_MOVEMENT_RANGE       |-> << 1, 2 >>,
     LINEAR_STEPS_RANGE         |-> << 1, 1 >>,
     MOVEMENT_DURATION_RANGE    |-> << 1, 1 >>,
     BEZIER_STEP_INTERVAL_RANGE |-> << 1, 1 >>]

(***************************************************************************)
(* Boundary calculator.                                                    *)
(***************************************************************************)
Raise(kind) == [raised |-> TRUE, kind |-> kind, value |-> << >>]

Return(v) == [raised |-> FALSE, kind |-> "none", value |-> v]

\* get_screen_bounds with the validation min_x > max_x or min_y > max_y, which
\* lets an empty rectangle through
get_screen_bounds_AllowsEmpty(dims, c) ==
    LET margin == c.SCREEN_MARGIN
    IN  IF ~c.ENABLE_SCREEN_SAFE_ZONE
        THEN Return(<< 0, 0, dims[1], dims[2] >>)
        ELSE IF Len(margin) \notin {1, 2, 4}
        THEN Raise("ValueError")
        ELSE LET top    == IF Len(margin) = 1 THEN margin[1] ELSE margin[2]
                 right  == IF Len(margin) = 4 THEN margin[3] ELSE margin[1]
                 bottom == IF Len(margin) = 4 THEN margin[4] ELSE top
             IN  IF margin[1] > dims[1] - right \/ top > dims[2] - bottom
                 THEN Raise("ValueError")
                 ELSE Return(<< margin[1], top, dims[1] - right, dims[2] - bottom >>)

get_screen_bounds(dims, c) ==
    LET screen_width  == dims[1]
        screen_height == dims[2]
        margin        == c.SCREEN_MARGIN
    IN  IF ~c.ENABLE_SCREEN_SAFE_ZONE
        THEN Return(<< 0, 0, screen_width, screen_height >>)
        ELSE IF Len(margin) \notin {1, 2, 4}
        THEN Raise("ValueError")
        ELSE LET left   == margin[1]
                 top    == IF Len(margin) = 1 THEN margin[1] ELSE margin[2]
                 right  == IF Len(margin) = 4 THEN margin[3] ELSE margin[1]
                 bottom == IF Len(margin) = 1 THEN margin[1]
                           ELSE IF Len(margin) = 2 THEN margin[2]
                           ELSE margin[4]
                 min_x  == left
                 min_y  == top
                 max_x  == screen_width - right
                 max_y  == screen_height - bottom
             IN  IF min_x >= max_x \/ min_y >= max_y
                 THEN Raise("ValueError")
                 ELSE Return(<< min_x, min_y, max_x, max_y >>)

(***************************************************************************)
(* Position sampler.  A rectangle is << min_x, min_y, max_x, max_y >>.     *)
(***************************************************************************)
\* get_next_position raises ValueError on an empty or degenerate rectangle
NextPositionRaises(r) == r[1] >= r[3] \/ r[2] >= r[4]

\* the points random.randint can return
get_next_position(r) == { << x, y >> : x \in r[1]..r[3], y \in r[2]..r[4] }

Max(a, b) == IF a >= b THEN a ELSE b

Min(a, b) == IF a <= b THEN a ELSE b

\* the search window of get_small_movement_position
SmallWindow(cur, dims, c) ==
    LET R == c.SMALL_MOVEMENT_RANGE[2]
    IN  << Max(0, cur[1] - R), Max(0, cur[2] - R),
           Min(dims[1], cur[1] + R), Min(dims[2], cur[2] + R) >>

DistSq(p, q) == (p[1] - q[1]) * (p[1] - q[1]) + (p[2] - q[2]) * (p[2] - q[2])

\* the acceptance test without the square root: dx**2 + dy**2 against the
\* minimum distance
FarEnough_NoSquareRoot(p, cur, c) == DistSq(p, cur) >= c.SMALL_MOVEMENT_RANGE[1]

\* math.sqrt(dx**2 + dy**2) >= SMALL_MOVEMENT_RANGE[0].  The square root of
\* an integer below 2^53 is correctly rounded and monotone, and the minimum
\* is an integer, so the comparison of the floats is that of the squares.
FarEnough(p, cur, c) ==
    DistSq(p, cur) >= c.SMALL_MOVEMENT_RANGE[1] * c.SMALL_MOVEMENT_RANGE[1]

(***************************************************************************)
(* Movement type selector.                                                 *)
(***************************************************************************)
enabled_types(c) ==
    (IF c.USE_LINEAR_MOVEMENT THEN << "linear" >> ELSE << >>)
    \o (IF c.USE_BEZIER_MOVEMENT THEN << "bezier" >> ELSE << >>)

\* choose_movement_type with the tie going to bezier ( < for <= )
choose_movement_type_TieToBezier(consecutive, c) ==
    LET enabled == enabled_types(c)
    IN  IF Len(enabled) = 0 THEN {}
        ELSE IF Len(enabled) = 1 THEN { enabled[1] }
        ELSE IF ~c.RANDOMIZE_MOVEMENT_TYPES
        THEN { IF consecutive["linear"] < consecutive["bezier"]
               THEN "linear" ELSE "bezier" }
        ELSE { enabled[i] : i \in 1..Len(enabled) }

\* the types choose_movement_type can return; none when it raises ValueError
choose_movement_type(consecutive, c) ==
    LET enabled == enabled_types(c)
    IN  IF Len(enabled) = 0 THEN {}
        ELSE IF Len(enabled) = 1 THEN { enabled[1] }
        ELSE IF ~c.RANDOMIZE_MOVEMENT_TYPES
        THEN { IF consecutive["linear"] <= consecutive["bezier"]
               THEN "linear" ELSE "bezier" }
        ELSE { enabled[i] : i \in 1..Len(enabled) }

OtherType(t) == IF t = "linear" THEN "bezier" ELSE "linear"

\* main, "Update consecutive count"
UpdateConsecutive(consecutive, t, last) ==
    IF t = last
    THEN [consecutive EXCEPT ![t] = @ + 1]
    ELSE [consecutive EXCEPT ![t] = 1, ![OtherType(t)] = 0]

\* the overflow correction without the switch of the type: the counters are
\* reset and the drawn type is executed
OverflowCorrection_KeepsType(consecutive, t, c) ==
    IF consecutive[t] > c.MAX_CONSECUTIVE_SAME_TYPE
    THEN [type  |-> t,
          count |-> [consecutive EXCEPT ![t] = 1, ![OtherType(t)] = 0],
          fired |-> TRUE]
    ELSE [type |-> t, count |-> consecutive, fired |-> FALSE]

\* the overflow correction with the reset of the counters inside the branches
\* that switch the type: nothing is reset when the other type is disabled
OverflowCorrection_ResetOnSwitch(consecutive, t, c) ==
    IF consecutive[t] > c.MAX_CONSECUTIVE_SAME_TYPE
    THEN IF (t = "linear" /\ c.USE_BEZIER_MOVEMENT)
            \/ (t = "bezier" /\ c.USE_LINEAR_MOVEMENT)
         THEN [type  |-> OtherType(t),
               count |-> [consecutive EXCEPT ![OtherType(t)] = 1, ![t] = 0],
               fired |-> TRUE]
         ELSE [type |-> t, count |-> consecutive, fired |-> TRUE]
    ELSE [type |-> t, count |-> consecutive, fired |-> FALSE]

\* main, "Ensure we don't exceed max consecutive same type": the type that
\* is executed and the counters, and whether the correction fired
OverflowCorrection(consecutive, t, c) ==
    IF consecutive[t] > c.MAX_CONSECUTIVE_SAME_TYPE
    THEN LET s == IF t = "linear" /\ c.USE_BEZIER_MOVEMENT THEN "bezier"
                  ELSE IF t = "bezier" /\ c.USE_LINEAR_MOVEMENT THEN "linear"
                  ELSE t
         IN  [type  |-> s,
              count |-> [consecutive EXCEPT ![s] = 1, ![OtherType(s)] = 0],
              fired |-> TRUE]
    ELSE [type |-> t, count |-> consecutive, fired |-> FALSE]

(***************************************************************************)
(* Trajectory generators.                                                  *)
(***************************************************************************)
JitterOffsets(c) ==
    IF c.ENABLE_JITTER THEN (-JITTER_INTENSITY)..JITTER_INTENSITY ELSE {0}

\* x_increment = (target_x - start_x) / steps
LinearIncrement(from, to, n) == FDivInt(to - from, n)

\* int(start_x + x_increment * step)
LinearCoordinate(from, inc, i) == FTrunc(FAdd(FFromInt(from), FMulInt(inc, i)))

\* steps = int(movement_duration / step_interval)
BezierSteps(duration, interval) == FTrunc(FDivInt(duration, interval))

\* the offsets random.uniform(-offset_range, offset_range) can return, among
\* the integers: o with |o| <= distance * curvature_factor for a factor of
\* the configured range
ControlOffsets(from, to) ==
    LET d2 == DistSq(from, to)
        k  == BEZIER_CURVATURE_RANGE[2]
    IN  { o \in -(d2 + 1)..(d2 + 1) : 100 * o * o <= k * k * d2 }

\* start_x + dx * 0.3 + random.uniform(...)
ControlCoordinate(from, to, tenths, o) ==
    FAdd(FAdd(FFromInt(from), FMul(FFromInt(to - from), FDivInt(tenths, 10))),
         FFromInt(o))

\* t = i / (steps + 1): the curve stops short of t = 1
BezierT_StopsShort(i, n) == FDivInt(i, n + 1)

\* t = i / steps
BezierT(i, n) == FDivInt(i, n)

\* the factors (1-t)**3, 3*(1-t)**2*t, 3*(1-t)*t**2 and t**3 of the cubic
\* Bezier curve, which are the same floats for both coordinates
BezierWeights(t) ==
    LET u == FSub(FFromInt(1), t)
    IN  << FPow3(u),
           FMul(FMul(FFromInt(3), FPow2(u)), t),
           FMul(FMul(FFromInt(3), u), FPow2(t)),
           FPow3(t) >>

\* (1-t)**3 * start + 3*(1-t)**2*t * ctrl1 + 3*(1-t)*t**2 * ctrl2 + t**3 * target
BezierCoordinate(w, from, c1, c2, to) ==
    FAdd(FAdd(FAdd(FMul(w[1], FFromInt(from)), FMul(w[2], c1)),
              FMul(w[3], c2)),
         FMul(w[4], FFromInt(to)))

\* the pointer after set_cursor_pos(p): the platform keeps it on the screen
SetCursorPos(p, dims) ==
    << Max(0, Min(dims[1], p[1])), Max(0, Min(dims[2], p[2])) >>

ScreenPoints(dims) == { << x, y >> : x \in 0..dims[1], y \in 0..dims[2] }

(***************************************************************************)
(* State.                                                                  *)
(***************************************************************************)
VARIABLES
    cfg,                \* the configuration, fixed for the run
    screen,             \* << width, height >> of the screen
    cursor,             \* the pointer position the platform holds
    pc,                 \* where the program is
    exit_status,        \* the exit status of the process, -1 while it runs
    end_reason,         \* why main ended
    bounds,             \* main: min_x, min_y, max_x, max_y
    movement_count,     \* main
    consecutive_count,  \* main
    last_movement_type, \* main ("none" for None)
    movement_type,      \* main
    movement_size,      \* main
    current,            \* main: current_x, current_y
    target,             \* main: target_x, target_y
    window,             \* get_small_movement_position: the search window
    sample,             \* get_small_movement_position: the last point drawn
    start,              \* trajectory generator: start_x, start_y
    steps,              \* trajectory generator: steps
    step,               \* trajectory generator: the loop index
    increment,          \* linear_mouse_move: x_increment, y_increment
    ctrl,               \* human_like_mouse_move: ctrl1_x, ctrl1_y, ctrl2_x, ctrl2_y
    nwrites,            \* set_cursor_pos calls made by the current movement
    last_written,       \* the last point the current movement wrote
    moved,              \* whether set_cursor_pos was ever called
    run_length,         \* back-to-back movements executed with the last style
    corrected           \* whether the overflow correction fired in this iteration

envVars   == << cfg, screen >>
exitVars  == << exit_status, end_reason >>
selVars   == << consecutive_count, last_movement_type, movement_type,
                run_length, corrected >>
mainVars  == << bounds, movement_count, movement_size, current, target >>
smallVars == << window, sample >>
moveVars  == << start, steps, step, increment, ctrl >>
writeVars == << nwrites, last_written, moved >>

vars == << envVars, cursor, pc, exitVars, selVars, mainVars, smallVars,
           moveVars, writeVars >>

FZero == FFromInt(0)

\* the state main() starts from, with configuration c on screen dims
Start(c, dims, at, where) ==
    /\ cfg = c
    /\ screen = dims
    /\ cursor = at
    /\ pc = where
    /\ exit_status = -1
    /\ end_reason = "none"
    /\ bounds = << 0, 0, 0, 0 >>
    /\ movement_count = 0
    /\ consecutive_count = [t \in {"linear", "bezier"} |-> 0]
    /\ last_movement_type = "none"
    /\ movement_type = "none"
    /\ movement_size = "none"
    /\ current = << 0, 0 >>
    /\ target = << 0, 0 >>
    /\ window = << 0, 0, 0, 0 >>
    /\ sample = << 0, 0 >>
    /\ start = << 0, 0 >>
    /\ steps = 0
    /\ step = 0
    /\ increment = << FZero, FZero >>
    /\ ctrl = << FZero, FZero, FZero, FZero >>
    /\ nwrites = 0
    /\ last_written = << 0, 0 >>
    /\ moved = FALSE
    /\ run_length = 0
    /\ corrected = FALSE

(***************************************************************************)
(* How main ends.  The process is gone: its variables hold nothing any     *)
(* more, the pointer stays where it is.                                    *)
(***************************************************************************)
Exit(status, reason) ==
    /\ pc' = "done"
    /\ exit_status' = status
    /\ end_reason' = reason
    /\ bounds' = << 0, 0, 0, 0 >>
    /\ movement_count' = 0
    /\ consecutive_count' = [t \in {"linear", "bezier"} |-> 0]
    /\ last_movement_type' = "none"
    /\ movement_type' = "none"
    /\ movement_size' = "none"
    /\ current' = << 0, 0 >>
    /\ target' = << 0, 0 >>
    /\ window' = << 0, 0, 0, 0 >>
    /\ sample' = << 0, 0 >>
    /\ start' = << 0, 0 >>
    /\ steps' = 0
    /\ step' = 0
    /\ increment' = << FZero, FZero >>
    /\ ctrl' = << FZero, FZero, FZero, FZero >>
    /\ nwrites' = 0
    /\ last_written' = << 0, 0 >>
    /\ run_length' = 0
    /\ corrected' = FALSE
    /\ UNCHANGED << envVars, cursor, moved >>

\* "except Exception as e": the message is printed and main returns, so the
\* process ends with status 0
ExceptException(kind) == Exit(0, kind)

\* "except KeyboardInterrupt": the goodbye message, and main returns
ExceptKeyboardInterrupt == Exit(0, "KeyboardInterrupt")

\* sys.exit(1), before the try block
SysExit == Exit(1, "SystemExit")

\* the places inside main's try block
TryPcs == {"startup", "loop", "small_begin", "small_loop", "select",
           "linear_begin", "linear_step", "bezier_begin", "bezier_step", "wait"}

\* the places whose next statement calls the platform (screen size query,
\* cursor read, cursor write)
PlatformPcs == {"startup", "loop", "small_begin", "linear_begin",
                "linear_step", "bezier_begin", "bezier_step"}

(***************************************************************************)
(* main: the dependency check and the start of the try block.              *)
(***************************************************************************)
CheckDependencies ==
    /\ pc = "start"
    /\ \/ /\ pc' = "startup"
          /\ UNCHANGED << envVars, cursor, exitVars, selVars, mainVars,
                          smallVars, moveVars, writeVars >>
       \/ SysExit

Startup ==
    /\ pc = "startup"
    /\ LET b == get_screen_bounds(screen, cfg)
       IN  IF b.raised
           THEN ExceptException(b.kind)
           ELSE /\ bounds' = b.value
                /\ movement_count' = 0
                /\ consecutive_count' = [t \in {"linear", "bezier"} |-> 0]
                /\ last_movement_type' = "none"
                /\ pc' = "loop"
                /\ UNCHANGED << envVars, cursor, exitVars, movement_type,
                                run_length, corrected, movement_size, current,
                                target, smallVars, moveVars, writeVars >>

(***************************************************************************)
(* main: one iteration of the loop, up to the choice of the target.        *)
(***************************************************************************)
LoopHead ==
    /\ pc = "loop"
    /\ movement_count < MaxMovements
    /\ \/ /\ cfg.ENABLE_SMALL_MOVEMENTS
          /\ movement_count' = movement_count + 1
          /\ current' = cursor
          /\ pc' = "small_begin"
          /\ UNCHANGED << envVars, cursor, exitVars, selVars, bounds,
                          movement_size, target, smallVars, moveVars,
                          writeVars >>
       \/ IF NextPositionRaises(bounds)
          THEN ExceptException("ValueError")
          ELSE /\ movement_count' = movement_count + 1
               /\ current' = cursor
               /\ \E p \in get_next_position(bounds) : target' = p
               /\ movement_size' = "normal"
               /\ pc' = "select"
               /\ UNCHANGED << envVars, cursor, exitVars, selVars, bounds,
                               smallVars, moveVars, writeVars >>

\* get_small_movement_position, up to the rejection loop
SmallBegin ==
    /\ pc = "small_begin"
    /\ window' = SmallWindow(current, screen, cfg)
    /\ pc' = "small_loop"
    /\ UNCHANGED << envVars, cursor, exitVars, selVars, mainVars, sample,
                    moveVars, writeVars >>

\* one pass of "while True" in get_small_movement_position
SmallSample ==
    /\ pc = "small_loop"
    /\ IF NextPositionRaises(window)
       THEN ExceptException("ValueError")
       ELSE /\ \E p \in get_next_position(window) :
                 /\ sample' = p
                 /\ IF FarEnough(p, current, cfg)
                    THEN /\ target' = p
                         /\ movement_size' = "small"
                         /\ pc' = "select"
                    ELSE UNCHANGED << target, movement_size, pc >>
            /\ UNCHANGED << envVars, cursor, exitVars, selVars, bounds,
                            movement_count, current, window, moveVars,
                            writeVars >>

(***************************************************************************)
(* main: the choice of the movement type, the counter update and the       *)
(* overflow correction.                                                    *)
(***************************************************************************)
Select ==
    /\ pc = "select"
    /\ LET choices == choose_movement_type(consecutive_count, cfg)
       IN  IF choices = {}
           THEN ExceptException("ValueError")
           ELSE /\ \E t \in choices :
                     LET upd == UpdateConsecutive(consecutive_count, t,
                                                  last_movement_type)
                         o   == OverflowCorrection(upd, t, cfg)
                     IN  /\ movement_type' = o.type
                         /\ consecutive_count' = o.count
                         /\ corrected' = o.fired
                         /\ last_movement_type' = o.type
                         /\ run_length' = IF o.type = last_movement_type
                                          THEN run_length + 1 ELSE 1
                         /\ pc' = IF o.type = "linear" THEN "linear_begin"
                                  ELSE "bezier_begin"
                /\ UNCHANGED << envVars, cursor, exitVars, mainVars, smallVars,
                                moveVars, writeVars >>

(***************************************************************************)
(* linear_mouse_move.                                                      *)
(***************************************************************************)
LinearBegin ==
    /\ pc = "linear_begin"
    /\ \E n \in cfg.LINEAR_STEPS_RANGE[1]..cfg.LINEAR_STEPS_RANGE[2] :
         IF n = 0
         THEN ExceptException("ZeroDivisionError")
         ELSE /\ start' = cursor
              /\ steps' = n
              /\ increment' = << LinearIncrement(cursor[1], target[1], n),
                                 LinearIncrement(cursor[2], target[2], n) >>
              /\ step' = 1
              /\ pc' = "linear_step"
              /\ UNCHANGED << envVars, cursor, exitVars, selVars, mainVars,
                              smallVars, ctrl, writeVars >>

\* what a set_cursor_pos(p) call changes
Write(p) ==
    /\ cursor' = SetCursorPos(p, screen)
    /\ nwrites' = nwrites + 1
    /\ last_written' = p
    /\ moved' = TRUE

\* one pass of "for step in range(1, steps + 1)"
LinearStep ==
    /\ pc = "linear_step"
    /\ LET x == LinearCoordinate(start[1], increment[1], step)
           y == LinearCoordinate(start[2], increment[2], step)
       IN  \E jx, jy \in JitterOffsets(cfg) : Write(<< x + jx, y + jy >>)
    /\ step' = step + 1
    /\ pc' = IF step = steps THEN "wait" ELSE "linear_step"
    /\ UNCHANGED << envVars, exitVars, selVars, mainVars, smallVars, start,
                    steps, increment, ctrl >>

(***************************************************************************)
(* human_like_mouse_move.                                                  *)
(***************************************************************************)
BezierBegin ==
    /\ pc = "bezier_begin"
    /\ start' = cursor
    /\ \E d \in cfg.MOVEMENT_DURATION_RANGE[1]..cfg.MOVEMENT_DURATION_RANGE[2],
          iv \in cfg.BEZIER_STEP_INTERVAL_RANGE[1]..cfg.BEZIER_STEP_INTERVAL_RANGE[2] :
         steps' = BezierSteps(d, iv)
    /\ \E o1x, o1y, o2x, o2y \in ControlOffsets(cursor, target) :
         ctrl' = << ControlCoordinate(cursor[1], target[1], 3, o1x),
                    ControlCoordinate(cursor[2], target[2], 3, o1y),
                    ControlCoordinate(cursor[1], target[1], 7, o2x),
                    ControlCoordinate(cursor[2], target[2], 7, o2y) >>
    /\ step' = 0
    /\ pc' = "bezier_step"
    /\ UNCHANGED << envVars, cursor, exitVars, selVars, mainVars, smallVars,
                    increment, writeVars >>

\* int(current_x) after the jitter, if any, was added to the float
BezierPixel(x, j) == FTrunc(FAdd(x, FFromInt(j)))

\* one pass of "for i in range(steps + 1)"
BezierStep ==
    /\ pc = "bezier_step"
    /\ IF steps = 0
       THEN ExceptException("ZeroDivisionError")
       ELSE /\ LET w == BezierWeights(BezierT(step, steps))
                   x == BezierCoordinate(w, start[1], ctrl[1], ctrl[3], target[1])
                   y == BezierCoordinate(w, start[2], ctrl[2], ctrl[4], target[2])
               IN  \E jx, jy \in JitterOffsets(cfg) :
                     Write(<< BezierPixel(x, jx), BezierPixel(y, jy) >>)
            /\ step' = step + 1
            /\ pc' = IF step = steps THEN "wait" ELSE "bezier_step"
            /\ UNCHANGED << envVars, exitVars, selVars, mainVars, smallVars,
                            start, steps, increment, ctrl >>

(***************************************************************************)
(* main: the wait between movements, and how main is cut short.            *)
(***************************************************************************)
\* "Completed ... movement", then time.sleep(wait_time): the generator's
\* locals are gone, main's are dead until the next iteration assigns them,
\* and the user may have moved the pointer when the program wakes up
Wait ==
    /\ pc = "wait"
    /\ pc' = "loop"
    /\ \E p \in ScreenPoints(screen) : cursor' = p
    /\ movement_type' = "none"
    /\ movement_size' = "none"
    /\ corrected' = FALSE
    /\ current' = << 0, 0 >>
    /\ target' = << 0, 0 >>
    /\ window' = << 0, 0, 0, 0 >>
    /\ sample' = << 0, 0 >>
    /\ start' = << 0, 0 >>
    /\ steps' = 0
    /\ step' = 0
    /\ increment' = << FZero, FZero >>
    /\ ctrl' = << FZero, FZero, FZero, FZero >>
    /\ nwrites' = 0
    /\ last_written' = << 0, 0 >>
    /\ UNCHANGED << envVars, exitVars, bounds, movement_count,
                    consecutive_count, last_movement_type, run_length, moved >>

\* Ctrl+C inside the try block
Interrupt ==
    /\ pc \in TryPcs
    /\ ExceptKeyboardInterrupt

\* the platform call that comes next raises
PlatformError ==
    /\ pc \in PlatformPcs
    /\ ExceptException("PlatformError")

(***************************************************************************)
(* The program: main() under the configurations of MainConfigs.            *)
(***************************************************************************)
\* the selector: both styles with and without randomization, one style, none
SelectorConfigs ==
    { [BaseConfig EXCEPT !.USE_LINEAR_MOVEMENT = l,
                         !.USE_BEZIER_MOVEMENT = b,
                         !.RANDOMIZE_MOVEMENT_TYPES = r,
                         !.MAX_CONSECUTIVE_SAME_TYPE = m] :
        l \in BOOLEAN, b \in BOOLEAN, r \in BOOLEAN, m \in 1..MaxConsecutive }

\* the safe zone and the small movements
GeometryConfigs ==
    { [BaseConfig EXCEPT !.SCREEN_MARGIN = g] :
        g \in { << 0 >>, << 1, 0 >>, << 0, 0, 1, 0 >>, << 1 >>, << 1, 1, 1 >> } }
    \cup
    { [BaseConfig EXCEPT !.ENABLE_SCREEN_SAFE_ZONE = FALSE,
                         !.SCREEN_MARGIN = g] :
        g \in { << 1 >>, << 1, 1, 1 >> } }
    \cup
    { [BaseConfig EXCEPT !.ENABLE_SMALL_MOVEMENTS = TRUE,
                         !.SMALL_MOVEMENT_RANGE = r] :
        r \in { << 1, 1 >>, << 3, 1 >> } }

\* the jitter and the step counts
MotionConfigs ==
    { [BaseConfig EXCEPT !.ENABLE_JITTER = TRUE],
      [BaseConfig EXCEPT !.LINEAR_STEPS_RANGE = << 0, 2 >>],
      [BaseConfig EXCEPT !.MOVEMENT_DURATION_RANGE = << 1, 2 >>,
                         !.BEZIER_STEP_INTERVAL_RANGE = << 1, 2 >>] }

MainConfigs == SelectorConfigs \cup GeometryConfigs \cup MotionConfigs

MainScreen == << 2, 1 >>

Init ==
    \E c \in MainConfigs, at \in ScreenPoints(MainScreen) :
        Start(c, MainScreen, at, "start")

Next ==
    \/ CheckDependencies
    \/ Startup
    \/ LoopHead
    \/ SmallBegin
    \/ SmallSample
    \/ Select
    \/ LinearBegin
    \/ LinearStep
    \/ BezierBegin
    \/ BezierStep
    \/ Wait
    \/ Interrupt
    \/ PlatformError

Spec == Init /\ [][Next]_vars

(***************************************************************************)
(* The boundary calculator on every screen and margin of the bounds.       *)
(***************************************************************************)
MarginSpecs == UNION { [1..n -> 0..MaxMargin] : n \in 0..5 }

InitBounds ==
    \E w \in 1..MaxScreen, h \in 1..MaxScreen, g \in MarginSpecs, z \in BOOLEAN :
        Start([BaseConfig EXCEPT !.SCREEN_MARGIN = g,
                                 !.ENABLE_SCREEN_SAFE_ZONE = z],
              << w, h >>, << 0, 0 >>, "startup")

NextBounds == Startup

SpecBounds == InitBounds /\ [][NextBounds]_vars

(***************************************************************************)
(* The small movements: main up to the return of                           *)
(* get_small_movement_position.  The rejection loop keeps running while    *)
(* it can.                                                                 *)
(***************************************************************************)
InitSmall ==
    \E w \in 2..MaxSmallScreen, h \in 2..MaxSmallScreen,
       d \in 1..MaxSmallDistance, r \in 0..MaxSmallRadius :
        \E at \in ScreenPoints(<< w, h >>) :
            Start([BaseConfig EXCEPT !.ENABLE_SMALL_MOVEMENTS = TRUE,
                                     !.SMALL_MOVEMENT_RANGE = << d, r >>],
                  << w, h >>, at, "startup")

NextSmall ==
    \/ Startup
    \/ LoopHead
    \/ SmallBegin
    \/ SmallSample

SpecSmall == InitSmall /\ [][NextSmall]_vars /\ WF_vars(SmallSample)

(***************************************************************************)
(* The linear generator: main up to the end of the first movement, with    *)
(* the linear style alone and no jitter.                                   *)
(***************************************************************************)
LinearScreen == << 4, 1 >>

InitLinear ==
    \E at \in ScreenPoints(LinearScreen) :
        Start([BaseConfig EXCEPT !.USE_BEZIER_MOVEMENT = FALSE,
                                 !.ENABLE_SCREEN_SAFE_ZONE = FALSE,
                                 !.LINEAR_STEPS_RANGE =
                                     << LinearStepsLow, LinearStepsHigh >>],
              LinearScreen, at, "startup")

NextLinear ==
    \/ Startup
    \/ LoopHead
    \/ Select
    \/ LinearBegin
    \/ LinearStep

SpecLinear == InitLinear /\ [][NextLinear]_vars

(***************************************************************************)
(* The Bezier generator: main up to the end of the first movement, with    *)
(* the Bezier style alone and no jitter.                                   *)
(***************************************************************************)
BezierScreen == << 3, 1 >>

InitBezier ==
    \E at \in ScreenPoints(BezierScreen) :
        Start([BaseConfig EXCEPT !.USE_LINEAR_MOVEMENT = FALSE,
                                 !.ENABLE_SCREEN_SAFE_ZONE = FALSE,
                                 !.MOVEMENT_DURATION_RANGE = << 1, MaxDuration >>,
                                 !.BEZIER_STEP_INTERVAL_RANGE = << 1, 2 >>],
              BezierScreen, at, "startup")

NextBezier ==
    \/ Startup
    \/ LoopHead
    \/ Select
    \/ BezierBegin
    \/ BezierStep

SpecBezier == InitBezier /\ [][NextBezier]_vars

(***************************************************************************)
(* Properties.                                                             *)
(***************************************************************************)
\* the movement is about to be executed: the type is chosen, the counters
\* are updated and the overflow correction is done
Executing == pc \in {"linear_begin", "bezier_begin"}

BothStyles == cfg.USE_LINEAR_MOVEMENT /\ cfg.USE_BEZIER_MOVEMENT

\* C1: with both styles enabled and randomization on, no style is executed
\* more than MAX_CONSECUTIVE_SAME_TYPE times in a row, whatever
\* choose_movement_type draws.
C1_NoRunLongerThanMax ==
    (BothStyles /\ cfg.RANDOMIZE_MOVEMENT_TYPES)
        => run_length <= cfg.MAX_CONSECUTIVE_SAME_TYPE

\* a movement whose drawn type was force-switched by the overflow correction
C1_Witness ==
    /\ BothStyles
    /\ cfg.RANDOMIZE_MOVEMENT_TYPES
    /\ Executing
    /\ corrected
    /\ movement_count = cfg.MAX_CONSECUTIVE_SAME_TYPE + 1
    /\ run_length = 1

\* C2: when a movement is executed, consecutive_count of its style is at most
\* MAX_CONSECUTIVE_SAME_TYPE, in every configuration with a style enabled,
\* the ones with a single style included.
C2_CountWithinMax ==
    Executing => consecutive_count[movement_type] <= cfg.MAX_CONSECUTIVE_SAME_TYPE

\* the single enabled style runs on past the maximum and its counter was reset
C2_Witness ==
    /\ ~BothStyles
    /\ Executing
    /\ corrected
    /\ run_length > cfg.MAX_CONSECUTIVE_SAME_TYPE
    /\ consecutive_count[movement_type] = 1

\* C3: with both styles enabled and randomization off, the executed styles
\* alternate linear, bezier, linear, ... from the first movement on, and the
\* overflow correction never fires.
C3_Alternates ==
    (BothStyles /\ ~cfg.RANDOMIZE_MOVEMENT_TYPES /\ Executing)
        => /\ movement_type = (IF movement_count % 2 = 1 THEN "linear" ELSE "bezier")
           /\ consecutive_count[movement_type] = 1
           /\ consecutive_count[OtherType(movement_type)] = 0
           /\ ~corrected

\* the third movement of the alternation
C3_Witness ==
    /\ BothStyles
    /\ ~cfg.RANDOMIZE_MOVEMENT_TYPES
    /\ Executing
    /\ movement_count = 3
    /\ movement_type = "linear"

\* the sides (left, top, right, bottom) a margin of 1, 2 or 4 values stands for
C4_Sides(g) ==
    IF Len(g) = 1 THEN << g[1], g[1], g[1], g[1] >>
    ELSE IF Len(g) = 2 THEN << g[1], g[2], g[1], g[2] >>
    ELSE g

\* whether the margins leave a rectangle on the screen
C4_Fits(dims, g) ==
    /\ Len(g) \in {1, 2, 4}
    /\ C4_Sides(g)[1] < dims[1] - C4_Sides(g)[3]
    /\ C4_Sides(g)[2] < dims[2] - C4_Sides(g)[4]

\* C4: get_screen_bounds returns (0, 0, width, height) with the safe zone off;
\* with it on, (left, top, width - right, height - bottom) for a margin of 1,
\* 2 or 4 values that leaves min_x < max_x and min_y < max_y, and an error for
\* every other margin; 800x600 with (50, 100) gives (50, 100, 750, 500), and
\* (900,) is an error.
C4_ScreenBounds ==
    LET g == cfg.SCREEN_MARGIN
        s == C4_Sides(g)
    IN  /\ pc = "loop" =>
             IF cfg.ENABLE_SCREEN_SAFE_ZONE
             THEN /\ C4_Fits(screen, g)
                  /\ bounds = << s[1], s[2], screen[1] - s[3], screen[2] - s[4] >>
                  /\ bounds[1] < bounds[3]
                  /\ bounds[2] < bounds[4]
             ELSE bounds = << 0, 0, screen[1], screen[2] >>
        /\ pc = "done" =>
             /\ cfg.ENABLE_SCREEN_SAFE_ZONE
             /\ ~C4_Fits(screen, g)
             /\ end_reason = "ValueError"
        /\ get_screen_bounds(<< 800, 600 >>,
                             [BaseConfig EXCEPT !.SCREEN_MARGIN = << 50, 100 >>])
             = Return(<< 50, 100, 750, 500 >>)
        /\ get_screen_bounds(<< 800, 600 >>,
                             [BaseConfig EXCEPT !.SCREEN_MARGIN = << 900 >>]).raised

\* a rectangle computed from a margin of two different values
C4_Witness ==
    /\ pc = "loop"
    /\ cfg.ENABLE_SCREEN_SAFE_ZONE
    /\ cfg.SCREEN_MARGIN = << 1, 0 >>
    /\ screen = << 3, 2 >>
    /\ bounds = << 1, 0, 2, 2 >>

\* C5: a run that ends with a configuration error (ValueError of the margins
\* or of the disabled styles, ZeroDivisionError of a step count of 0) has made
\* no set_cursor_pos call.
C5_NoMovementBeforeConfigError ==
    end_reason \in {"ValueError", "ZeroDivisionError"} => ~moved

\* C6: the exit status is 0 after a user interrupt and non-zero after a
\* failed dependency check or after an exception of the platform shim in the
\* loop (here: one raised after a set_cursor_pos call of the loop was made).
C6_ExitStatus ==
    /\ end_reason = "KeyboardInterrupt" => exit_status = 0
    /\ end_reason = "SystemExit" => exit_status # 0
    /\ (end_reason = "PlatformError" /\ moved) => exit_status # 0

\* no point of the search window is far enough from the current position
NoPointFarEnough ==
    \A p \in get_next_position(window) : ~FarEnough(p, current, cfg)

\* C7: get_small_movement_position returns even when no point of its window
\* is at the minimum distance: the rejection loop ends.
C7_SmallMovementTerminates ==
    (pc = "small_loop" /\ NoPointFarEnough) ~> (pc # "small_loop")

\* C8: the point get_small_movement_position returns lies in the square of
\* half-width R around the current position, clamped to the screen, at a
\* distance of at least the minimum and at most R * sqrt(2).
C8_SmallMovementTarget ==
    (pc = "select" /\ movement_size = "small") =>
        LET R == cfg.SMALL_MOVEMENT_RANGE[2]
            m == cfg.SMALL_MOVEMENT_RANGE[1]
        IN  /\ target[1] >= Max(0, current[1] - R)
            /\ target[1] <= Min(screen[1], current[1] + R)
            /\ target[2] >= Max(0, current[2] - R)
            /\ target[2] <= Min(screen[2], current[2] + R)
            /\ DistSq(target, current) >= m * m
            /\ DistSq(target, current) <= 2 * R * R

\* a point accepted in a window the screen edge clamps, after a rejection
C8_Witness ==
    /\ pc = "select"
    /\ movement_size = "small"
    /\ current = << 0, 1 >>
    /\ cfg.SMALL_MOVEMENT_RANGE = << 2, 2 >>
    /\ target = << 2, 2 >>

\* the quotient a / b rounded toward zero, b > 0
TruncDiv(a, b) == IF a >= 0 THEN a \div b ELSE -((-a) \div b)

\* start + (target - start) * i / n, truncated
ExactLinear(from, to, n, i) == TruncDiv(from * n + (to - from) * i, n)

\* C9: without jitter, linear_mouse_move makes exactly N set_cursor_pos calls,
\* the i-th at start + (target - start) * i / N truncated, the last at the
\* target.
C9_LinearWritesExactPoints ==
    (movement_type = "linear" /\ ~cfg.ENABLE_JITTER
        /\ pc \in {"linear_step", "wait"}) =>
        /\ nwrites = step - 1
        /\ nwrites >= 1 =>
             last_written = << ExactLinear(start[1], target[1], steps, nwrites),
                               ExactLinear(start[2], target[2], steps, nwrites) >>
        /\ pc = "wait" => (nwrites = steps /\ last_written = target)

\* C10: without jitter and with steps >= 1, human_like_mouse_move makes
\* exactly steps + 1 set_cursor_pos calls, for i = 0..steps in order, the
\* first at the start and the last at the target.
C10_BezierEndpoints ==
    (movement_type = "bezier" /\ ~cfg.ENABLE_JITTER /\ steps >= 1
        /\ pc \in {"bezier_step", "wait"}) =>
        /\ nwrites = step
        /\ nwrites = 1 => last_written = start
        /\ pc = "bezier_step" => nwrites <= steps
        /\ pc = "wait" => (nwrites = steps + 1 /\ last_written = target)

\* a finished curve of three steps across the screen, its control points
\* off the straight line
C10_Witness ==
    /\ pc = "wait"
    /\ movement_type = "bezier"
    /\ steps = 3
    /\ start = << 0, 0 >>
    /\ target = BezierScreen
    /\ ctrl[1] = ControlCoordinate(0, BezierScreen[1], 3, 1)
    /\ nwrites = 4

\* whether the point p lies in the rectangle r = << min_x, min_y, max_x, max_y >>
InRectangle(p, r) ==
    /\ r[1] <= p[1] /\ p[1] <= r[3]
    /\ r[2] <= p[2] /\ p[2] <= r[4]

\* C11: with the safe zone enabled, the target the main loop has chosen, of a
\* normal movement or of a small one, lies in the rectangle get_screen_bounds
\* returned at startup.
C11_TargetInSafeRectangle ==
    (cfg.ENABLE_SCREEN_SAFE_ZONE /\ pc = "select") => InRectangle(target, bounds)

\* C12: after the counter update and the overflow correction,
\* consecutive_count of the executed style is the number of movements
\* executed back to back with that style, this one included, and that of the
\* other style is 0, in every configuration.
C12_CountIsRunLength ==
    Executing =>
        /\ consecutive_count[movement_type] = run_length
        /\ consecutive_count[OtherType(movement_type)] = 0
====
